---- MODULE Spec2Model ----
(***************************************************************************)
(* Model of sqlness' Runner (src/src/runner.rs): environment discovery,    *)
(* case discovery and ordering, sequential case execution with fail-fast,  *)
(* diff based comparison and the life cycle of the actual-output file.     *)
(*                                                                         *)
(* A path below the case directory is <<env, name>>; a name is a sequence  *)
(* of one-character strings, "." separating the extension as in            *)
(* std::path::Path.  Names are valid UTF-8, so OsStr::to_str (lines 104,   *)
(* 119) and to_string_lossy (lines 211, 212) return the name itself.       *)
(* Every environment directory is flat, so all the paths of one            *)
(* environment share the prefix case_dir/env/ and are ordered by name.     *)
(***************************************************************************)
EXTENDS Integers, Sequences, FiniteSets, TLC

(* Bounds of the model *)
MaxEnvs == 2
MaxCases == 2

(***************************************************************************)
(* Strings: characters, their code points, str::to_lowercase, str::cmp     *)
(***************************************************************************)
Chars == {".", "A", "B", "a", "b", "c", "o", "r", "s"}

CodePoint(c) ==
    CASE c = "." -> 46
      [] c = "A" -> 65
      [] c = "B" -> 66
      [] c = "a" -> 97
      [] c = "b" -> 98
      [] c = "c" -> 99
      [] c = "o" -> 111
      [] c = "r" -> 114
      [] c = "s" -> 115

LowerChar(c) ==
    CASE c = "A" -> "a"
      [] c = "B" -> "b"
      [] OTHER -> c

to_lowercase(s) == [i \in 1..Len(s) |-> LowerChar(s[i])]

Min(a, b) == IF a <= b THEN a ELSE b

(* Positions of the first difference of two strings, 0 when one is a prefix *)
FirstDiff(a, b) ==
    LET D == {i \in 1..Min(Len(a), Len(b)) : a[i] # b[i]}
    IN  IF D = {} THEN 0 ELSE CHOOSE i \in D : \A j \in D : i <= j

(* Ord::cmp on str: lexicographic on the bytes *)
cmp(a, b) ==
    LET d == FirstDiff(a, b)
    IN  IF d # 0
        THEN IF CodePoint(a[d]) < CodePoint(b[d]) THEN "Less" ELSE "Greater"
        ELSE IF Len(a) < Len(b) THEN "Less"
             ELSE IF Len(a) > Len(b) THEN "Greater" ELSE "Equal"

(* str::contains *)
contains(s, sub) ==
    \E i \in 0..(Len(s) - Len(sub)) : SubSeq(s, i + 1, i + Len(sub)) = sub

(***************************************************************************)
(* std::path::Path: extension, file_stem, with_extension                   *)
(***************************************************************************)
LastDot(name) ==
    LET D == {i \in 1..Len(name) : name[i] = "."}
    IN  IF D = {} THEN 0 ELSE CHOOSE i \in D : \A j \in D : j <= i

(* Path::extension: None (here <<"none">>) without an embedded dot *)
NoExtension == <<"none">>
extension(name) ==
    IF LastDot(name) <= 1 THEN NoExtension
    ELSE SubSeq(name, LastDot(name) + 1, Len(name))

file_stem(name) ==
    IF LastDot(name) <= 1 THEN name ELSE SubSeq(name, 1, LastDot(name) - 1)

(* Path::with_extension: the extension of the name is REPLACED *)
with_extension(name, ext) ==
    IF ext = <<>> THEN file_stem(name) ELSE file_stem(name) \o <<".">> \o ext

(* Sequences *)
RECURSIVE SeqOf(_)
(* All the orders in which the elements of a finite set can be enumerated *)
SeqOf(S) ==
    IF S = {} THEN {<<>>}
    ELSE UNION {{<<x>> \o t : t \in SeqOf(S \ {x})} : x \in S}

Range(s) == {s[i] : i \in 1..Len(s)}

(***************************************************************************)
(* Files                                                                   *)
(***************************************************************************)
Absent == [exists |-> FALSE, utf8 |-> TRUE, lines |-> <<>>]
Text(ls) == [exists |-> TRUE, utf8 |-> TRUE, lines |-> ls]
Binary == [exists |-> TRUE, utf8 |-> FALSE, lines |-> <<>>]

(* The configured names and extensions (Config, used at lines 93, 160-162, 233) *)
EnvConfigFile == <<"c">>
CaseExt == <<"s">>
ExpectExt == <<"r">>
OutputExt == <<"o">>

(* Names of the case-definition files an environment directory may hold *)
CaseFileNames ==
    { <<"a", ".", "s">>, <<"A", ".", "s">>, <<"a", ".", "b", ".", "s">> }

Stems == {file_stem(with_extension(n, <<>>)) : n \in CaseFileNames}

AllNames ==
    CaseFileNames \cup {EnvConfigFile}
    \cup {with_extension(st, x) : st \in Stems, x \in {CaseExt, ExpectExt, OutputExt}}

(* What the execution of a case may write to its output sink *)
Outputs == {Text(<<1>>), Text(<<1, 2>>), Binary}

(* An environment directory: case files S, the expected file of stem a,    *)
(* an output file of stem a left by an earlier run, the config file        *)
MkDir(S, expA, staleA, hasConfig) ==
    [n \in AllNames |->
        IF n \in S THEN Text(<<0>>)
        ELSE IF n = EnvConfigFile /\ hasConfig THEN Text(<<0>>)
        ELSE IF n = <<"a", ".", "r">> THEN expA
        ELSE IF n = <<"A", ".", "r">> THEN Text(<<1>>)
        ELSE IF n = <<"a", ".", "o">> THEN staleA
        ELSE Absent]

RichDirs ==
    { MkDir(S, expA, staleA, FALSE) :
        S \in {T \in SUBSET CaseFileNames : Cardinality(T) <= MaxCases},
        expA \in {Text(<<1>>), Absent, Binary},
        staleA \in {Absent, Text(<<2, 2, 2>>)} }

(* An environment without case files; it holds a config file, so that    *)
(* start is called with Some(config_path) for it and with None for e1     *)
PoorDirs ==
    { MkDir({}, Text(<<1>>), Absent, TRUE) }

EnvNames == <<"e1", "e2", "e3", "e4">>
Envs == {EnvNames[i] : i \in 1..MaxEnvs}
DirsOf(e) == IF e = "e1" THEN RichDirs ELSE PoorDirs

(* The entries of case_dir: the environment directories and a plain file *)
RootEntries ==
    {[name |-> e, is_dir |-> TRUE] : e \in Envs}
    \cup {[name |-> "README", is_dir |-> FALSE]}

Configs ==
    [ fail_fast : BOOLEAN,
      test_case_extension : {CaseExt},
      expect_result_extension : {ExpectExt},
      output_result_extension : {OutputExt},
      test_filter : {<<>>, <<"a">>},
      env_config_file : {EnvConfigFile} ]

(***************************************************************************)
(* Runner::collect_case_paths (lines 183-217)                              *)
(***************************************************************************)
(* WalkDir::new(root).into_iter(): the files of the directory, in an order *)
(* the file system chooses                                                 *)
WalkDir(dir) == SeqOf({n \in AllNames : dir[n].exists})

(* lines 193-197: keep the entries whose extension is the case extension *)
HasCaseExtension(cfg, name) == extension(name) = cfg.test_case_extension

(* Mutant of PassesFilter: the filter is not applied *)
PassesFilter_all(cfg, path) == TRUE

(* lines 200-206: the file name of the identity contains the filter *)
PassesFilter(cfg, path) == contains(path, cfg.test_filter)

RECURSIVE MapStrip(_)
(* line 199: path.with_extension("") *)
MapStrip(s) ==
    IF s = <<>> THEN <<>>
    ELSE <<with_extension(Head(s), <<>>)>> \o MapStrip(Tail(s))

(* lines 210-214: the comparator given to sort_by *)
SortCmp(a, b) == cmp(to_lowercase(a), to_lowercase(b))

(* slice::sort_by is stable: an element goes behind the elements it is     *)
(* not less than                                                           *)
InsertSorted(sorted, x) ==
    LET G == {i \in 1..Len(sorted) : SortCmp(x, sorted[i]) = "Less"}
        p == IF G = {} THEN Len(sorted) + 1
             ELSE CHOOSE i \in G : \A j \in G : i <= j
    IN  SubSeq(sorted, 1, p - 1) \o <<x>> \o SubSeq(sorted, p, Len(sorted))

RECURSIVE sort_by(_)
sort_by(s) ==
    IF s = <<>> THEN <<>>
    ELSE InsertSorted(sort_by(SubSeq(s, 1, Len(s) - 1)), s[Len(s)])

collect_case_paths(cfg, walk) ==
    LET matching == SelectSeq(walk, LAMBDA n : HasCaseExtension(cfg, n))
        stripped == MapStrip(matching)
        cases == SelectSeq(stripped, LAMBDA q : PassesFilter(cfg, q))
    IN  sort_by(cases)

(***************************************************************************)
(* Runner::compare (lines 229-268)                                         *)
(***************************************************************************)
(* prettydiff::diff_lines: the operations turning old into new *)
CommonPrefix(old, new) ==
    LET d == FirstDiff(old, new)
    IN  IF d = 0 THEN Min(Len(old), Len(new)) ELSE d - 1

diff_lines(old, new) ==
    LET k == CommonPrefix(old, new)
    IN  [i \in 1..k |-> "Equal"]
        \o [i \in 1..(Len(old) - k) |-> "Remove"]
        \o [i \in 1..(Len(new) - k) |-> "Insert"]

(* line 253 *)
IsDifferent(old, new) ==
    \E i \in 1..Len(diff_lines(old, new)) : diff_lines(old, new)[i] # "Equal"

(* The result of compare when no read fails: Err for a missing file or     *)
(* invalid UTF-8, else Ok(is_different)                                    *)
compare(cfg, dir, path) ==
    LET expected == dir[with_extension(path, cfg.expect_result_extension)]
        output == dir[with_extension(path, cfg.output_result_extension)]
    IN  IF ~expected.exists THEN [ok |-> FALSE, err |-> "IO", diff |-> FALSE]
        ELSE IF ~expected.utf8 THEN [ok |-> FALSE, err |-> "Utf8", diff |-> FALSE]
        ELSE IF ~output.exists THEN [ok |-> FALSE, err |-> "IO", diff |-> FALSE]
        ELSE IF ~output.utf8 THEN [ok |-> FALSE, err |-> "Utf8", diff |-> FALSE]
        ELSE [ok |-> TRUE, err |-> "none",
              diff |-> IsDifferent(expected.lines, output.lines)]

(***************************************************************************)
(* State                                                                   *)
(***************************************************************************)
VARIABLES
    config,        \* Runner.config
    fs,            \* fs[env][name]: the files below case_dir/env
    pc,            \* position of the single thread of control
    environments,  \* run: the result of collect_env
    env_idx,       \* run: index of the environment of the for loop (line 71)
    db,            \* run: the environment whose backend handle is live, or "none"
    case_paths,    \* run_env: the result of collect_case_paths
    case_idx,      \* run_env: index of the path of the for loop (line 117)
    diff_cases,    \* run_env: line 114
    errors,        \* run_env: line 115
    case_result,   \* run_env: the result of run_single_case (line 118)
    written,       \* observer: what case.execute wrote to output_file (line 166)
    events,        \* observer: calls of start, run_single_case and stop, case outcomes
    reports,       \* observer: what run_env printed and returned, per environment
    run_result     \* observer: what Runner::run returned

vars == <<config, fs, pc, environments, env_idx, db, case_paths, case_idx,
          diff_cases, errors, case_result, written, events, reports, run_result>>

NoResult == [kind |-> "none", diff |-> FALSE, err |-> "none"]
OkResult(d) == [kind |-> "Ok", diff |-> d, err |-> "none"]
ErrResult(e) == [kind |-> "Err", diff |-> FALSE, err |-> e]

NoReport == [done |-> FALSE, case_paths |-> <<>>, diff_cases |-> <<>>,
             errors |-> <<>>, ok |-> TRUE, count |-> 0]

Event(op, e, c, d) == [op |-> op, env |-> e, case |-> c, detail |-> d]

env == environments[env_idx]
path == case_paths[case_idx]
case_path == with_extension(path, config.test_case_extension)
output_path == with_extension(path, config.output_result_extension)

Init ==
    /\ config \in Configs
    /\ fs \in {f \in [Envs -> RichDirs \cup PoorDirs] : \A e \in Envs : f[e] \in DirsOf(e)}
    /\ pc = "run"
    /\ environments = <<>>
    /\ env_idx = 0
    /\ db = "none"
    /\ case_paths = <<>>
    /\ case_idx = 0
    /\ diff_cases = <<>>
    /\ errors = <<>>
    /\ case_result = NoResult
    /\ written = Absent
    /\ events = <<>>
    /\ reports = [e \in Envs |-> NoReport]
    /\ run_result = NoResult

(***************************************************************************)
(* Runner::run (lines 69-87) and Runner::collect_env (lines 98-110)        *)
(***************************************************************************)
(* collect_env: the names of the directories, in the order read_dir gives *)
collect_env(entries) ==
    LET dirs == SelectSeq(entries, LAMBDA d : d.is_dir)
    IN  [i \in 1..Len(dirs) |-> dirs[i].name]

(* Mutant of CollectEnvErr: the error is swallowed and run goes on with   *)
(* no environment                                                         *)
CollectEnvErr_swallowed ==
    /\ pc = "run"
    /\ environments' = <<>>
    /\ env_idx' = 0
    /\ pc' = "env_loop"
    /\ UNCHANGED <<config, written, fs, db, case_paths, case_idx, diff_cases, errors,
                   case_result, events, reports, run_result>>

(* line 70: read_dir or next_entry fails, the error is returned by `?` *)
CollectEnvErr ==
    /\ pc = "run"
    /\ run_result' = ErrResult("IO")
    /\ pc' = "done"
    /\ UNCHANGED <<config, written, fs, environments, env_idx, db, case_paths, case_idx,
                   diff_cases, errors, case_result, events, reports>>

CollectEnvOk ==
    /\ pc = "run"
    /\ \E entries \in SeqOf(RootEntries) : environments' = collect_env(entries)
    /\ env_idx' = 0
    /\ pc' = "env_loop"
    /\ UNCHANGED <<config, written, fs, db, case_paths, case_idx, diff_cases, errors,
                   case_result, events, reports, run_result>>

(* lines 71-79: the next environment; its config path; start *)
StartEnv ==
    /\ pc = "env_loop"
    /\ env_idx < Len(environments)
    /\ env_idx' = env_idx + 1
    /\ LET e == environments[env_idx + 1]
           config_path == IF fs[e][config.env_config_file].exists
                          THEN "Some" ELSE "None"
       IN  /\ events' = Append(events, Event("start", e, <<>>, config_path))
           /\ db' = e
    /\ pc' = "run_env"
    /\ UNCHANGED <<config, written, fs, environments, case_paths, case_idx, diff_cases,
                   errors, case_result, reports, run_result>>

(* line 86: the loop is over, Ok(()) *)
RunReturn ==
    /\ pc = "env_loop"
    /\ env_idx = Len(environments)
    /\ run_result' = OkResult(FALSE)
    /\ pc' = "done"
    /\ UNCHANGED <<config, written, fs, environments, env_idx, db, case_paths, case_idx,
                   diff_cases, errors, case_result, events, reports>>

(* Mutant of StopEnv: the loop over the environments is left after an     *)
(* environment that reported an error                                     *)
StopEnv_breaks ==
    /\ pc = "stop"
    /\ events' = Append(events, Event("stop", env, <<>>, db))
    /\ db' = "none"
    /\ env_idx' = IF reports[env].ok THEN env_idx ELSE Len(environments)
    /\ pc' = "env_loop"
    /\ UNCHANGED <<config, written, fs, environments, case_paths, case_idx,
                   diff_cases, errors, case_result, reports, run_result>>

(* line 83: stop, after run_env returned (lines 80-82 only print) *)
StopEnv_leaks_handle ==
    /\ pc = "stop"
    /\ events' = Append(events, Event("stop", env, <<>>, db))
    /\ pc' = "env_loop"
    /\ UNCHANGED <<config, written, fs, environments, env_idx, db, case_paths,
                   case_idx, diff_cases, errors, case_result, reports, run_result>>

StopEnv ==
    /\ pc = "stop"
    /\ events' = Append(events, Event("stop", env, <<>>, db))
    /\ db' = "none"
    /\ pc' = "env_loop"
    /\ UNCHANGED <<config, written, fs, environments, env_idx, case_paths, case_idx,
                   diff_cases, errors, case_result, reports, run_result>>

(***************************************************************************)
(* Runner::run_env (lines 112-157)                                         *)
(***************************************************************************)
(* lines 113-116 *)
CollectCasePaths ==
    /\ pc = "run_env"
    /\ \E walk \in WalkDir(fs[env]) : case_paths' = collect_case_paths(config, walk)
    /\ case_idx' = 0
    /\ diff_cases' = <<>>
    /\ errors' = <<>>
    /\ case_result' = NoResult
    /\ pc' = "case_loop"
    /\ UNCHANGED <<config, written, fs, environments, env_idx, db, events, reports, run_result>>

(* Mutant of NextCase: the next case is begun while the comparison of    *)
(* the case before it is still pending                                    *)
NextCase_overlapping ==
    /\ pc \in {"case_loop", "compare"}
    /\ case_idx < Len(case_paths)
    /\ case_idx' = case_idx + 1
    /\ events' = Append(events,
                        Event("run_single_case", env, case_paths[case_idx + 1], db))
    /\ case_result' = NoResult
    /\ pc' = "from_file"
    /\ UNCHANGED <<config, written, fs, environments, env_idx, db, case_paths, diff_cases,
                   errors, reports, run_result>>

(* lines 117-118: the next path, run_single_case is called *)
NextCase ==
    /\ pc = "case_loop"
    /\ case_idx < Len(case_paths)
    /\ case_idx' = case_idx + 1
    /\ events' = Append(events,
                        Event("run_single_case", env, case_paths[case_idx + 1], db))
    /\ case_result' = NoResult
    /\ pc' = "from_file"
    /\ UNCHANGED <<config, written, fs, environments, env_idx, db, case_paths, diff_cases,
                   errors, reports, run_result>>

(* line 133: the paths are exhausted *)
LoopExit ==
    /\ pc = "case_loop"
    /\ case_idx = Len(case_paths)
    /\ pc' = "report"
    /\ UNCHANGED <<config, written, fs, environments, env_idx, db, case_paths, case_idx,
                   diff_cases, errors, case_result, events, reports, run_result>>

Outcome(r) ==
    IF r.kind = "Err" THEN "Failed" ELSE IF r.diff THEN "Diverged" ELSE "Matched"

(* lines 119-132: the match on case_result *)
diff_cases_after(r, name) == IF r.kind = "Ok" /\ r.diff THEN Append(diff_cases, name) ELSE diff_cases

errors_after(r, name) ==
    IF r.kind = "Err" /\ ~config.fail_fast
    THEN Append(errors, <<name, r.err>>) ELSE errors

(* Mutants of Breaks: the break is missing; the break ignores fail_fast *)
Breaks_never(r) == FALSE
Breaks_always(r) == r.kind = "Err"

(* Mutant of Breaks: a divergence stops the environment too *)
Breaks_on_divergence(r) == config.fail_fast /\ (r.kind = "Err" \/ (r.kind = "Ok" /\ r.diff))

Breaks(r) == r.kind = "Err" /\ config.fail_fast

MatchResult ==
    /\ pc = "match"
    /\ diff_cases' = diff_cases_after(case_result, path)
    /\ errors' = errors_after(case_result, path)
    /\ events' = Append(events, Event("finished", env, path, Outcome(case_result)))
    /\ pc' = IF Breaks(case_result) THEN "report" ELSE "case_loop"
    /\ UNCHANGED <<config, written, fs, environments, env_idx, db, case_paths, case_idx,
                   case_result, reports, run_result>>

(* Mutant of error_count: the errors are not counted *)
error_count_diffs_only(diffs, errs) == Len(diffs)

(* lines 141-156 *)
error_count(diffs, errs) ==
    (IF diffs # <<>> THEN Len(diffs) ELSE 0) + (IF errs # <<>> THEN Len(errs) ELSE 0)

(* Mutant of Report: the error of run_env is returned by run (`?`) *)
Report_propagates ==
    /\ pc = "report"
    /\ reports' = [reports EXCEPT ![env] =
                     [done |-> TRUE, case_paths |-> case_paths,
                      diff_cases |-> diff_cases, errors |-> errors,
                      ok |-> error_count(diff_cases, errors) = 0,
                      count |-> error_count(diff_cases, errors)]]
    /\ pc' = IF error_count(diff_cases, errors) = 0 THEN "stop" ELSE "done"
    /\ run_result' = IF error_count(diff_cases, errors) = 0 THEN run_result
                     ELSE [kind |-> "Err", diff |-> FALSE, err |-> "RunFailed"]
    /\ UNCHANGED <<config, written, fs, environments, env_idx, db, case_paths, case_idx,
                   diff_cases, errors, case_result, events>>

Report ==
    /\ pc = "report"
    /\ reports' = [reports EXCEPT ![env] =
                     [done |-> TRUE, case_paths |-> case_paths,
                      diff_cases |-> diff_cases, errors |-> errors,
                      ok |-> error_count(diff_cases, errors) = 0,
                      count |-> error_count(diff_cases, errors)]]
    /\ pc' = "stop"
    /\ UNCHANGED <<config, written, fs, environments, env_idx, db, case_paths, case_idx,
                   diff_cases, errors, case_result, events, run_result>>

(***************************************************************************)
(* Runner::run_single_case (lines 159-181); every `?` returns the error    *)
(***************************************************************************)
Returns(r) ==
    /\ case_result' = r
    /\ written' = Absent
    /\ pc' = "match"

Frame == UNCHANGED <<config, environments, env_idx, db, case_paths, case_idx,
                     diff_cases, errors, events, reports, run_result>>

WriteFile(name, content) == fs' = [fs EXCEPT ![env][name] = content]

(* lines 160-161: TestCase::from_file reads and parses the case file *)
FromFileOk ==
    /\ pc = "from_file"
    /\ fs[env][case_path].exists
    /\ pc' = "open_output_file"
    /\ UNCHANGED <<fs, case_result, written>>
    /\ Frame

FromFileErr ==
    /\ pc = "from_file"
    /\ Returns(ErrResult("IO"))
    /\ events' = Append(events, Event("from_file", env, path, "Err"))
    /\ UNCHANGED <<fs, environments, env_idx, db, case_paths, case_idx,
                   diff_cases, errors, config, reports, run_result>>

(* Mutant of open_output_file: the file is opened without truncate(true) *)
open_output_file_no_truncate(name) ==
    WriteFile(name, IF fs[env][name].exists THEN fs[env][name] ELSE Text(<<>>))

(* Mutant of open_output_file: the path is built with the wrong extension *)
open_output_file_wrong_extension(name) ==
    WriteFile(with_extension(name, config.expect_result_extension), Text(<<>>))

(* lines 162-163, 219-226: create(true).truncate(true).write(true) *)
open_output_file(name) == WriteFile(name, Text(<<>>))

OpenOutputFileOk ==
    /\ pc = "open_output_file"
    /\ open_output_file(output_path)
    /\ pc' = "execute"
    /\ UNCHANGED <<case_result, written>>
    /\ Frame

OpenOutputFileErr ==
    /\ pc = "open_output_file"
    /\ Returns(ErrResult("IO"))
    /\ UNCHANGED fs
    /\ Frame

(* AsyncWriteExt::write_all on a file opened with write(true) and not     *)
(* append: the bytes go to the start of the file, what the file held      *)
(* behind them stays                                                      *)
write_all(old, out) ==
    IF ~old.utf8 \/ ~out.utf8 THEN Binary
    ELSE Text(out.lines \o SubSeq(old.lines, Len(out.lines) + 1, Len(old.lines)))

(* line 166: the case writes its output to output_file *)
ExecuteOk ==
    /\ pc = "execute"
    /\ \E out \in Outputs :
          /\ WriteFile(output_path, write_all(fs[env][output_path], out))
          /\ written' = out
    /\ pc' = "flush"
    /\ UNCHANGED case_result
    /\ Frame

(* line 166: the execution fails, after it wrote nothing or something *)
ExecuteErr ==
    /\ pc = "execute"
    /\ \E out \in Outputs \cup {Text(<<>>)} :
          WriteFile(output_path, write_all(fs[env][output_path], out))
    /\ Returns(ErrResult("IO"))
    /\ Frame

(* line 169 *)
FlushOk ==
    /\ pc = "flush"
    /\ pc' = "compare"
    /\ UNCHANGED <<fs, case_result, written>>
    /\ Frame

FlushErr ==
    /\ pc = "flush"
    /\ Returns(ErrResult("IO"))
    /\ UNCHANGED fs
    /\ Frame

(* Mutant of RunCompare: a failed comparison counts as "not different" *)
RunCompare_error_as_equal ==
    /\ pc = "compare"
    /\ LET r == compare(config, fs[env], path)
       IN  IF r.ok /\ r.diff THEN Returns(OkResult(TRUE))
           ELSE /\ pc' = "remove_file"
                /\ UNCHANGED <<case_result, written>>
    /\ UNCHANGED fs
    /\ Frame

(* lines 170-171, 175-180: compare returns; Ok(true) is returned at once *)
RunCompare ==
    /\ pc = "compare"
    /\ LET r == compare(config, fs[env], path)
       IN  IF ~r.ok THEN Returns(ErrResult(r.err))
           ELSE IF r.diff THEN Returns(OkResult(TRUE))
           ELSE /\ pc' = "remove_file"
                /\ UNCHANGED <<case_result, written>>
    /\ UNCHANGED fs
    /\ Frame

(* lines 231-237, 241-247: an open or a read fails *)
CompareErr ==
    /\ pc = "compare"
    /\ Returns(ErrResult("IO"))
    /\ UNCHANGED fs
    /\ Frame

(* lines 171-173, 180: not different, the output file is removed *)
(* Mutant of remove_file: the output file is left in place *)
remove_file_skipped(name) == UNCHANGED fs

remove_file(name) == WriteFile(name, Absent)

RemoveFileOk ==
    /\ pc = "remove_file"
    /\ remove_file(output_path)
    /\ Returns(OkResult(FALSE))
    /\ Frame

RemoveFileErr ==
    /\ pc = "remove_file"
    /\ Returns(ErrResult("IO"))
    /\ UNCHANGED fs
    /\ Frame

Next ==
    \/ CollectEnvErr
    \/ CollectEnvOk
    \/ StartEnv
    \/ RunReturn
    \/ StopEnv
    \/ CollectCasePaths
    \/ NextCase
    \/ LoopExit
    \/ MatchResult
    \/ Report
    \/ FromFileOk
    \/ FromFileErr
    \/ OpenOutputFileOk
    \/ OpenOutputFileErr
    \/ ExecuteOk
    \/ ExecuteErr
    \/ FlushOk
    \/ FlushErr
    \/ RunCompare
    \/ CompareErr
    \/ RemoveFileOk
    \/ RemoveFileErr

Spec == Init /\ [][Next]_vars

(***************************************************************************)
(* Reading the observers                                                   *)
(***************************************************************************)
EvIdx == 1..Len(events)

IsEv(i, op, e) == events[i].op = op /\ events[i].env = e

Starts(e) == {i \in EvIdx : IsEv(i, "start", e)}
Stops(e) == {i \in EvIdx : IsEv(i, "stop", e)}
Calls(e) == {i \in EvIdx : IsEv(i, "run_single_case", e)}
CallsOf(e, c) == {i \in Calls(e) : events[i].case = c}
Finished(e, o) == {i \in EvIdx : IsEv(i, "finished", e) /\ events[i].detail = o}

(* The position of a path in a sequence of distinct paths, 0 if absent *)
PositionIn(s, c) ==
    IF \E k \in 1..Len(s) : s[k] = c THEN CHOOSE k \in 1..Len(s) : s[k] = c ELSE 0

Occurrences(s, c) == Cardinality({k \in 1..Len(s) : s[k] = c})

(* C1: with fail_fast enabled, once a case of an environment has finished  *)
(* as Failed, no further case of that environment is executed: no call of  *)
(* run_single_case for that environment follows the failure.               *)
C1_FailFastStops ==
    config.fail_fast =>
        \A e \in Envs : \A i \in Finished(e, "Failed") :
            \A j \in Calls(e) : j < i

(* A fail-fast abort happened: the first of at least two cases failed and  *)
(* the loop was left                                                       *)
C1_Witness ==
    /\ config.fail_fast
    /\ pc = "stop"
    /\ Len(case_paths) >= 2
    /\ \E i \in Finished(env, "Failed") : events[i].case = case_paths[1]

(* C2: every environment whose backend was started is stopped exactly once *)
(* when its run is over, after the last executed case, however the case    *)
(* loop ended; stop is never invoked twice nor without a start.            *)
C2_StopExactlyOnce ==
    \A e \in Envs :
        /\ Cardinality(Stops(e)) <= Cardinality(Starts(e))
        /\ Cardinality(Starts(e)) <= 1
        /\ \A s \in Stops(e) :
              /\ reports[e].done
              /\ \A i \in EvIdx : events[i].env = e /\ i # s => i < s
        /\ (Starts(e) # {} /\ (pc \in {"env_loop", "done"} \/ db # e)) =>
              Cardinality(Stops(e)) = 1

C2_Witness ==
    /\ pc = "done"
    /\ \E e \in Envs :
          /\ Cardinality(Stops(e)) = 1
          /\ config.fail_fast
          /\ Finished(e, "Failed") # {}
          /\ Cardinality(Calls(e)) < Len(reports[e].case_paths)

(* C3: when run is over, every environment that collect_env returned -     *)
(* every directory of case_dir - was started, run and stopped, whatever    *)
(* happened in the environments before it.                                 *)
C3_AllEnvironmentsRun ==
    pc = "done" =>
        /\ run_result.kind = "Ok" => Range(environments) = Envs
        /\ \A e \in Range(environments) :
              /\ Cardinality(Starts(e)) = 1
              /\ reports[e].done
              /\ Cardinality(Stops(e)) = 1

(* An environment ran to its stop after an earlier one reported an error *)
C3_Witness ==
    /\ pc = "done"
    /\ Len(environments) >= 2
    /\ ~reports[environments[1]].ok
    /\ Stops(environments[2]) # {}

(* C4: with fail_fast disabled, when the case loop of an environment is    *)
(* over, run_single_case has been called exactly once for every path that  *)
(* collect_case_paths returned, in that order.                             *)
C4_AllCasesOnce ==
    ~config.fail_fast =>
        \A e \in Envs : reports[e].done =>
            /\ Cardinality(Calls(e)) = Len(reports[e].case_paths)
            /\ \A k \in 1..Len(reports[e].case_paths) :
                  Cardinality(CallsOf(e, reports[e].case_paths[k])) = 1
            /\ \A i, j \in Calls(e) :
                  i < j => PositionIn(reports[e].case_paths, events[i].case)
                           < PositionIn(reports[e].case_paths, events[j].case)

(* Two cases ran although the first one failed *)
C4_Witness ==
    /\ ~config.fail_fast
    /\ \E e \in Envs :
          /\ reports[e].done
          /\ Len(reports[e].case_paths) >= 2
          /\ \E i \in Finished(e, "Failed") : events[i].case = reports[e].case_paths[1]
          /\ CallsOf(e, reports[e].case_paths[2]) # {}

(* C5: with fail_fast disabled, the count of an environment's result is    *)
(* the number of its Diverged cases plus the number of its Failed cases,   *)
(* and run_env returns Ok exactly when that count is zero.                 *)
C5_CountIsDivergedPlusFailed ==
    ~config.fail_fast =>
        \A e \in Envs : reports[e].done =>
            /\ reports[e].count =
                  Cardinality(Finished(e, "Diverged")) + Cardinality(Finished(e, "Failed"))
            /\ reports[e].ok <=> reports[e].count = 0

C5_Witness ==
    /\ ~config.fail_fast
    /\ \E e \in Envs :
          /\ reports[e].done
          /\ Finished(e, "Diverged") # {}
          /\ Finished(e, "Failed") # {}
          /\ reports[e].count = 2

(* C6: the final status of run is the aggregate over the environments of   *)
(* the Diverged and the Failed cases: when the environments were           *)
(* enumerated, run returns Ok if that total is zero and an error if not.   *)
TotalDivergedAndFailed(S) ==
    Cardinality({i \in EvIdx : events[i].op = "finished" /\ events[i].env \in S
                               /\ events[i].detail \in {"Diverged", "Failed"}})

C6_RunStatusIsAggregate ==
    (pc = "done" /\ environments # <<>>) =>
        (run_result.kind = "Ok" <=> TotalDivergedAndFailed(Envs) = 0)

(* C7: when the run of an environment is complete, each of its Failed      *)
(* cases is in the report's error list, paired with its error, and is      *)
(* counted in the environment's result, with fail_fast set or not.         *)
C7_FailedCasesReported ==
    \A e \in Envs : reports[e].done =>
        \A i \in Finished(e, "Failed") :
            /\ \E k \in 1..Len(reports[e].errors) :
                  reports[e].errors[k][1] = events[i].case
            /\ ~reports[e].ok
            /\ reports[e].count >= Cardinality(Finished(e, "Failed"))

(* C8: right after a case was finalized as Matched its actual-output file  *)
(* does not exist and the case is not in the diverging list; so an output  *)
(* file that exists right after its case was processed belongs to a        *)
(* Diverged or a Failed case.                                              *)
JustFinished == events # <<>> /\ events[Len(events)].op = "finished"
LastEvent == events[Len(events)]
OutputOf(c) == with_extension(c, config.output_result_extension)

C8_MatchedLeavesNoOutput ==
    /\ (pc = "match" /\ case_result = OkResult(FALSE)) =>
          /\ ~fs[env][output_path].exists
          /\ path \notin Range(diff_cases)
    /\ JustFinished =>
          /\ LastEvent.detail = "Matched" =>
                /\ ~fs[LastEvent.env][OutputOf(LastEvent.case)].exists
                /\ LastEvent.case \notin Range(diff_cases)
          /\ fs[LastEvent.env][OutputOf(LastEvent.case)].exists =>
                LastEvent.detail \in {"Diverged", "Failed"}
    /\ \A e \in Envs : reports[e].done =>
          \A i \in Finished(e, "Matched") :
              events[i].case \notin Range(reports[e].diff_cases)

(* A case was just finalized as Matched, after an earlier case of the      *)
(* environment had diverged                                                *)
C8_Witness ==
    /\ JustFinished
    /\ LastEvent.detail = "Matched"
    /\ ~fs[LastEvent.env][OutputOf(LastEvent.case)].exists
    /\ diff_cases # <<>>

(* C9: when the run of an environment is complete, the actual-output file  *)
(* of each of its Diverged cases exists and the case is exactly once in    *)
(* the diverging list, which is in the order of execution.                 *)
C9_DivergedKeepsOutput ==
    \A e \in Envs : (reports[e].done /\ db = e) =>
        /\ \A i \in Finished(e, "Diverged") :
              /\ fs[e][OutputOf(events[i].case)].exists
              /\ Occurrences(reports[e].diff_cases, events[i].case) = 1
        /\ \A i, j \in Finished(e, "Diverged") :
              i < j => PositionIn(reports[e].diff_cases, events[i].case)
                       < PositionIn(reports[e].diff_cases, events[j].case)

(* C10: the sequence collect_case_paths returns does not depend on the     *)
(* order in which the directory is enumerated: every enumeration order of  *)
(* the same files gives the sequence this run got.                         *)
C10_OrderIndependentOfWalk ==
    (pc = "case_loop" /\ case_idx = 0) =>
        \A walk \in WalkDir(fs[env]) : collect_case_paths(config, walk) = case_paths

(* C11: the cases of an environment are processed one after another, in    *)
(* the order of case_paths: when run_single_case is called for a case,     *)
(* every case called before it has been finished - its result matched and  *)
(* its output file removed (Matched) or left alone - and while a case is   *)
(* in flight it is the only one without a result.                          *)
InFlight ==
    pc \in {"from_file", "open_output_file", "execute", "flush", "compare",
            "remove_file", "match"}

FinishedBetween(e, j, i) ==
    \E f \in EvIdx : /\ j < f /\ f < i
                     /\ IsEv(f, "finished", e)
                     /\ events[f].case = events[j].case

C11_OneCaseAtATime ==
    /\ \A e \in Envs : \A i, j \in Calls(e) :
          j < i => /\ FinishedBetween(e, j, i)
                   /\ PositionIn(case_paths, events[j].case)
                      < PositionIn(case_paths, events[i].case) \/ e # env
    /\ InFlight =>
          /\ Calls(env) # {}
          /\ \A i \in Calls(env) :
                (\A f \in EvIdx : f > i => ~IsEv(f, "finished", env))
                    <=> events[i].case = path
    /\ (pc = "from_file" /\ case_idx > 1) =>
          LET prev == events[Len(events) - 1]
          IN  /\ prev.op = "finished"
              /\ prev.case = case_paths[case_idx - 1]
              /\ prev.detail = "Matched" => ~fs[env][OutputOf(prev.case)].exists

(* The second case of an environment has begun *)
C11_Witness ==
    /\ pc = "from_file"
    /\ case_idx = 2
    /\ fs[env][OutputOf(case_paths[1])].exists

(* C12: when collect_env fails - it returned no environment although       *)
(* case_dir holds some - run is over with that error and start was not     *)
(* invoked for any environment; run returns no other error.                *)
CollectEnvFailed == pc # "run" /\ environments = <<>>

C12_EnumerationFailureIsFatal ==
    /\ CollectEnvFailed =>
          /\ pc = "done"
          /\ run_result = ErrResult("IO")
          /\ \A e \in Envs : Starts(e) = {}
          /\ events = <<>>
    /\ run_result.kind = "Err" => CollectEnvFailed

C12_Witness ==
    /\ CollectEnvFailed
    /\ run_result.kind = "Err"
    /\ Envs # {}

(***************************************************************************)
(* A backend whose start can fail.  EnvController is declared outside      *)
(* runner.rs; run binds whatever start returns to db (line 79) and calls   *)
(* run_env with it (line 80), there is no branch on the outcome of start.  *)
(***************************************************************************)
StartEnvFails ==
    /\ pc = "env_loop"
    /\ env_idx < Len(environments)
    /\ env_idx' = env_idx + 1
    /\ events' = Append(events,
                        Event("start", environments[env_idx + 1], <<>>, "Failed"))
    /\ db' = environments[env_idx + 1]
    /\ pc' = "run_env"
    /\ UNCHANGED <<config, written, fs, environments, case_paths, case_idx, diff_cases,
                   errors, case_result, reports, run_result>>

NextStart ==
    \/ Next
    \/ StartEnvFails

SpecStart == Init /\ [][NextStart]_vars

(* C13: when start fails for an environment, the environment is treated as *)
(* failed - run_env does not return Ok for it - none of its cases is       *)
(* executed, and the run goes on: when run is over every later environment *)
(* was started.                                                            *)
StartFailed(e) == \E i \in Starts(e) : events[i].detail = "Failed"

C13_StartFailureSkipsEnvironment ==
    \A e \in Envs : StartFailed(e) =>
        /\ Calls(e) = {}
        /\ reports[e].done => ~reports[e].ok
        /\ pc = "done" => \A k \in 1..Len(environments) : Starts(environments[k]) # {}

(***************************************************************************)
(* Configurations in which extensions may coincide                         *)
(***************************************************************************)
ConfigsExt ==
    [ fail_fast : BOOLEAN,
      test_case_extension : {CaseExt},
      expect_result_extension : {ExpectExt},
      output_result_extension : {OutputExt, ExpectExt, CaseExt},
      test_filter : {<<>>},
      env_config_file : {EnvConfigFile} ]

InitExt ==
    /\ config \in ConfigsExt
    /\ fs \in {f \in [Envs -> RichDirs \cup PoorDirs] : \A e \in Envs : f[e] \in DirsOf(e)}
    /\ pc = "run"
    /\ environments = <<>>
    /\ env_idx = 0
    /\ db = "none"
    /\ case_paths = <<>>
    /\ case_idx = 0
    /\ diff_cases = <<>>
    /\ errors = <<>>
    /\ case_result = NoResult
    /\ written = Absent
    /\ events = <<>>
    /\ reports = [e \in Envs |-> NoReport]
    /\ run_result = NoResult

SpecExt == InitExt /\ [][Next]_vars

(* The roles a file name has under the configuration *)
IsCaseFile(n) == extension(n) = config.test_case_extension
IsExpectedFile(n) == extension(n) = config.expect_result_extension
IsOutputFile(n) == extension(n) = config.output_result_extension

DistinctExtensions ==
    /\ config.output_result_extension # config.test_case_extension
    /\ config.output_result_extension # config.expect_result_extension

(* C14 as stated: no step of a run creates, writes, truncates or deletes   *)
(* a case-definition file or an expected-result file, whatever the three   *)
(* extensions are.                                                         *)
C14_OnlyOutputFilesChange ==
    [][\A e \in Envs : \A n \in AllNames :
          fs'[e][n] # fs[e][n] => ~IsCaseFile(n) /\ ~IsExpectedFile(n)]_vars

(* C14 amended: when the actual-output extension differs from the          *)
(* case-definition and from the expected-result extension, every file a    *)
(* step creates, writes, truncates or deletes is an actual-output file,    *)
(* and is neither a case-definition nor an expected-result file.           *)
C14_OnlyOutputFilesChangeIfDistinct ==
    [][DistinctExtensions =>
          \A e \in Envs : \A n \in AllNames :
              fs'[e][n] # fs[e][n] =>
                  IsOutputFile(n) /\ ~IsCaseFile(n) /\ ~IsExpectedFile(n)]_vars

(* With distinct extensions an output file was written and then removed *)
C14_Witness ==
    /\ DistinctExtensions
    /\ JustFinished
    /\ LastEvent.detail = "Matched"
    /\ \E i \in Finished(LastEvent.env, "Diverged") :
          fs[LastEvent.env][OutputOf(events[i].case)].exists

(* C15: for an environment whose directory holds no file that has the case *)
(* extension and passes the filter, run_env executes no case and its       *)
(* report has no divergence and no error: it returns Ok.                   *)
MatchingCaseFiles(e) ==
    {n \in AllNames : /\ fs[e][n].exists
                      /\ extension(n) = config.test_case_extension
                      /\ contains(with_extension(n, <<>>), config.test_filter)}

C15_NoCaseNoError ==
    \A e \in Envs : (reports[e].done /\ MatchingCaseFiles(e) = {}) =>
        /\ Calls(e) = {}
        /\ reports[e].case_paths = <<>>
        /\ reports[e].diff_cases = <<>>
        /\ reports[e].errors = <<>>
        /\ reports[e].count = 0
        /\ reports[e].ok

(* The only case file of the environment is rejected by the filter *)
C15_Witness ==
    /\ reports["e1"].done
    /\ MatchingCaseFiles("e1") = {}
    /\ fs["e1"][<<"A", ".", "s">>].exists
    /\ config.test_filter = <<"a">>

(* C16: with fail_fast enabled only a Failed case stops an environment:    *)
(* when its run is over, a case that was not executed has a Failed case    *)
(* before it in sorted order, and every case behind a Diverged case was    *)
(* executed unless a case before it Failed.                                *)
HasOutcome(e, c, o) == \E i \in Finished(e, o) : events[i].case = c

C16_OnlyFailureStops ==
    config.fail_fast =>
        \A e \in Envs : reports[e].done =>
            LET cp == reports[e].case_paths
            IN  /\ \A k \in 1..Len(cp) :
                      CallsOf(e, cp[k]) = {} =>
                          \E m \in 1..(k - 1) : HasOutcome(e, cp[m], "Failed")
                /\ \A k \in 1..Len(cp) : HasOutcome(e, cp[k], "Diverged") =>
                      \A k2 \in (k + 1)..Len(cp) :
                          (\A m \in 1..(k2 - 1) : ~HasOutcome(e, cp[m], "Failed"))
                              => Cardinality(CallsOf(e, cp[k2])) = 1

(* With fail_fast the second case ran after the first one diverged *)
C16_Witness ==
    /\ config.fail_fast
    /\ \E e \in Envs :
          /\ reports[e].done
          /\ Len(reports[e].case_paths) >= 2
          /\ HasOutcome(e, reports[e].case_paths[1], "Diverged")
          /\ CallsOf(e, reports[e].case_paths[2]) # {}

(* C17: when the comparison fails - the expected-result or the             *)
(* actual-output file is missing or is not valid UTF-8, or a read fails -  *)
(* run_single_case returns an error and deletes nothing; the match on that *)
(* error records the case as Failed and leaves the diverging list and the  *)
(* files as they are.                                                      *)
ComparisonFails ==
    /\ pc = "compare"
    /\ ~compare(config, fs[env], path).ok \/ case_result'.kind = "Err"

C17_ComparisonFailureIsFailed ==
    [][/\ ComparisonFails =>
              /\ pc' = "match"
              /\ case_result'.kind = "Err"
              /\ fs' = fs
              /\ diff_cases' = diff_cases
       /\ (pc = "match" /\ case_result.kind = "Err") =>
              /\ events' = Append(events, Event("finished", env, path, "Failed"))
              /\ diff_cases' = diff_cases
              /\ fs' = fs]_vars

(* A case failed on invalid UTF-8; its output file is still there *)
C17_Witness ==
    /\ JustFinished
    /\ LastEvent.detail = "Failed"
    /\ case_result = ErrResult("Utf8")
    /\ fs[LastEvent.env][OutputOf(LastEvent.case)].exists
    /\ LastEvent.case \notin Range(diff_cases)

(* C18: the actual-output file is empty when the operations of a case      *)
(* start to run, and from the end of the execution to the comparison its   *)
(* content is exactly what this execution of the case wrote: nothing an    *)
(* earlier run or an earlier case left is compared.                        *)
C18_ComparedContentIsThisRunsOutput ==
    /\ pc = "execute" => fs[env][output_path] = Text(<<>>)
    /\ pc \in {"flush", "compare"} =>
          /\ written \in Outputs
          /\ fs[env][output_path] = written

(* The second case is compared on the file the first, Diverged, case left *)
C18_Witness ==
    /\ pc = "compare"
    /\ case_idx = 2
    /\ OutputOf(case_paths[1]) = output_path
    /\ HasOutcome(env, case_paths[1], "Diverged")
    /\ fs[env][output_path] = Text(<<1>>)

(***************************************************************************)
(* C19: the backend handle of an environment is held for exactly that      *)
(* environment's run.  Every run_single_case of an environment comes after *)
(* that environment's start and before its stop and is given the handle    *)
(* that start returned; the handle passed to stop is that same handle; an  *)
(* environment is started only when every environment started earlier has  *)
(* been stopped; and the handle that is live, if any, belongs to the       *)
(* current environment, which has been started and not stopped.            *)
(***************************************************************************)
StoppedBetween(j, i) ==
    \E t \in EvIdx : j < t /\ t < i /\ IsEv(t, "stop", events[j].env)

C19_HandleHeldForRun ==
    /\ \A e \in Envs : \A i \in Calls(e) :
          /\ events[i].detail = e
          /\ \E s \in Starts(e) : s < i
          /\ \A t \in Stops(e) : i < t
    /\ \A e \in Envs : \A t \in Stops(e) :
          /\ events[t].detail = e
          /\ \E s \in Starts(e) : s < t
    /\ \A i, j \in EvIdx :
          (j < i /\ events[i].op = "start" /\ events[j].op = "start")
             => StoppedBetween(j, i)
    /\ db # "none" => /\ env_idx > 0
                      /\ db = env
                      /\ Starts(db) # {}
                      /\ Stops(db) = {}
    /\ InFlight => db = env

(* A case of the second environment is executing, the first environment   *)
(* having been stopped                                                     *)
C19_Witness ==
    /\ pc = "execute"
    /\ env_idx = 2
    /\ Stops(environments[1]) # {}
    /\ Calls(env) # {}
    /\ db = env

(***************************************************************************)
(* C20: a case whose definition could not be loaded (TestCase::from_file   *)
(* returned an error) is finalized as Failed, and from the failing step to *)
(* the end of the run no step creates, truncates, rewrites or deletes the  *)
(* actual-output file of that case: what an earlier run left there stays.  *)
(***************************************************************************)
LoadFailed(e) == {events[i].case : i \in {k \in EvIdx : IsEv(k, "from_file", e)}}

C20_Step ==
    /\ \A e \in Envs : \A c \in LoadFailed(e)' :
          fs'[e][OutputOf(c)] = fs[e][OutputOf(c)]
    /\ (pc = "from_file" /\ pc' = "match" /\ case_result'.kind = "Err") =>
          path \in LoadFailed(env)'
    /\ (pc = "match" /\ path \in LoadFailed(env)
           /\ events[Len(events)].op = "from_file") =>
          events' = Append(events, Event("finished", env, path, "Failed"))

C20_LoadFailureLeavesOutput == [][C20_Step]_vars

====
